---------------------------- MODULE Spec2Model ----------------------------
(* A model of src/deploy_app.py: AppDeployer, the FTP deployment of a local  *)
(* tree to a remote store.                                                   *)
(*                                                                           *)
(* The remote store is a set of directories and a set of files (absolute     *)
(* paths, sequences of names; <<>> is "/"), the session is its working       *)
(* directory, and every ftplib call is an operator from a session to a       *)
(* session that appends the call, its resolved path and its outcome to the   *)
(* session's log.  An outcome is "ok", "perm" (ftplib.error_perm, a 5xx      *)
(* answer) or "temp" (any other member of ftplib.all_errors).  The methods   *)
(* of AppDeployer are operators over sessions, translated statement by       *)
(* statement; a raised exception is the field exc of the session returned.   *)
EXTENDS Integers, Sequences, FiniteSets, TLC

VARIABLES
    pc,            \* position of the run: the phase deploy() is in
    clean,         \* deploy(clean=...)
    loginDir,      \* the working directory the server gives after login
    faults,        \* the server's refusals: a set of [op, path, kind]
    sess,          \* the session: [dirs, files, cwd, log, out, exc]
    open,          \* whether the FTP session is open
    closes,        \* how many times the session was closed
    total_uploaded,\* deploy()'s counter
    result,        \* what deploy() returned: "none" while it runs
    before,        \* the session as it was before the last call
    failedIn       \* the phase an exception left, "none" if none did

vars == <<pc, clean, loginDir, faults, sess, open, closes, total_uploaded,
          result, before, failedIn>>

-----------------------------------------------------------------------------
(* Bounds *)

\* at most this many refusals are planted in the server for one run
MaxFaults == 2

-----------------------------------------------------------------------------
(* Paths *)

\* a path argument as the code passes it: absolute ('/...') or relative
Rel(segs) == [abs |-> FALSE, segs |-> segs]
Abs(segs) == [abs |-> TRUE, segs |-> segs]

\* f"{a}/{b}": string concatenation with a '/' between
Join(a, b) == [abs |-> a.abs, segs |-> a.segs \o b]

RECURSIVE Norm(_, _)
\* the server's reading of a path: empty and '.' segments dropped, '..' pops
Norm(acc, segs) ==
    IF segs = <<>> THEN acc
    ELSE LET h == Head(segs)
             t == Tail(segs)
         IN  IF h = "" \/ h = "." THEN Norm(acc, t)
             ELSE IF h = ".."
                  THEN Norm(IF acc = <<>> THEN acc
                            ELSE SubSeq(acc, 1, Len(acc) - 1), t)
                  ELSE Norm(Append(acc, h), t)

\* the absolute path an argument names in working directory cwd
Resolve(cwd, arg) ==
    IF arg.abs THEN Norm(<<>>, arg.segs) ELSE Norm(cwd, arg.segs)

Parent(p) == SubSeq(p, 1, Len(p) - 1)

IsPrefix(p, q) == Len(p) <= Len(q) /\ SubSeq(q, 1, Len(p)) = p

\* the names directly under directory d
ChildNames(s, d) ==
    {p[Len(p)] : p \in {q \in s.dirs \cup s.files :
                          Len(q) = Len(d) + 1 /\ IsPrefix(d, q)}}

RECURSIVE SetToSeq(_)
\* a set as a sequence, in a fixed order
SetToSeq(S) ==
    IF S = {} THEN <<>>
    ELSE LET x == CHOOSE y \in S : TRUE
         IN  <<x>> \o SetToSeq(S \ {x})

-----------------------------------------------------------------------------
(* The remote store: what each ftplib call does to a session *)

\* the refusal planted for op on path t, or "ok"
Planted(op, t) ==
    IF \E f \in faults : f.op = op /\ f.path = t
    THEN (CHOOSE f \in faults : f.op = op /\ f.path = t).kind
    ELSE "ok"

\* whether the store lets op through on path t
Allowed(s, op, t) ==
    CASE op = "mkd"  -> /\ t # <<>>
                        /\ t \notin s.dirs
                        /\ t \notin s.files
                        /\ Parent(t) \in s.dirs
      [] op = "cwd"  -> t \in s.dirs
      [] op = "nlst" -> t \in s.dirs
      [] op = "dele" -> t \in s.files
      [] op = "rmd"  -> /\ t # <<>>
                        /\ t \in s.dirs
                        /\ \A q \in s.dirs \cup s.files :
                               q = t \/ ~IsPrefix(t, q)
      [] op = "stor" -> /\ t # <<>>
                        /\ t \notin s.dirs
                        /\ Parent(t) \in s.dirs

\* the outcome of a call: the planted refusal, else 5xx unless the store
\* allows the call
Outcome(planted, allowed) ==
    IF planted # "ok" THEN planted ELSE IF allowed THEN "ok" ELSE "perm"

\* the call in the log, with the working directory it was made in, whether
\* the directory its target lies in existed, and the exception it raises
Logged(s, op, arg, t, res) ==
    [s EXCEPT !.log = Append(@, [op |-> op, arg |-> arg, cwd |-> s.cwd,
                                  path |-> t, res |-> res,
                                  inDir |-> Parent(t) \in s.dirs]),
              !.exc = IF res = "ok" THEN "none" ELSE res]

\* what a call that went through does to the store and the session
Effect(s, op, t) ==
    IF s.exc # "none" THEN s
    ELSE CASE op = "mkd"  -> [s EXCEPT !.dirs = @ \cup {t}]
           [] op = "cwd"  -> [s EXCEPT !.cwd = t]
           [] op = "nlst" -> s
           [] op = "dele" -> [s EXCEPT !.files = @ \ {t}]
           [] op = "rmd"  -> [s EXCEPT !.dirs = @ \ {t}]
           [] op = "stor" -> [s EXCEPT !.files = @ \cup {t}]

CallAt(s, op, arg, t) ==
    Effect(Logged(s, op, arg, t, Outcome(Planted(op, t), Allowed(s, op, t))),
           op, t)

\* one call of the session on the path its argument names
Call(s, op, arg) == CallAt(s, op, arg, Resolve(s.cwd, arg))

\* ftp.mkd(path)
Mkd(s, arg) == Call(s, "mkd", arg)

\* ftp.cwd(path)
Cwd(s, arg) == Call(s, "cwd", arg)

\* ftp.delete(name)
Dele(s, arg) == Call(s, "dele", arg)

\* ftp.rmd(path): only an empty directory is removed
Rmd(s, arg) == Call(s, "rmd", arg)

\* ftp.storbinary(f'STOR {remote_file}', f)
Stor(s, arg) == Call(s, "stor", arg)

\* items = []; ftp.retrlines('NLST', items.append)
Listing(s) ==
    [s |-> s,
     items |-> IF s.exc = "none" THEN SetToSeq(ChildNames(s, s.cwd))
               ELSE <<>>]

Nlst(s) == Listing(Call(s, "nlst", Rel(<<>>)))

\* print(...): one line of console output
Say(s, msg, what) == [s EXCEPT !.out = Append(@, <<msg, what>>)]

\* an except clause that handles the exception
Caught(s) == [s EXCEPT !.exc = "none"]

-----------------------------------------------------------------------------
(* Strings.  A string the code inspects character by character is read      *)
(* through Chars, which spells it out.                                       *)

Chars ==
       "site" :> <<"s", "i", "t", "e">>
    @@ "index.html" :> <<"i", "n", "d", "e", "x", ".", "h", "t", "m", "l">>
    @@ "favicon.ico" :> <<"f", "a", "v", "i", "c", "o", "n", ".", "i", "c", "o">>
    @@ "src" :> <<"s", "r", "c">>
    @@ "styles" :> <<"s", "t", "y", "l", "e", "s">>
    @@ "app.js" :> <<"a", "p", "p", ".", "j", "s">>
    @@ "util.js" :> <<"u", "t", "i", "l", ".", "j", "s">>
    @@ "notes.md" :> <<"n", "o", "t", "e", "s", ".", "m", "d">>
    @@ "core" :> <<"c", "o", "r", "e">>
    @@ "map.js" :> <<"m", "a", "p", ".", "j", "s">>
    @@ "original" :> <<"o", "r", "i", "g", "i", "n", "a", "l">>
    @@ "old.js" :> <<"o", "l", "d", ".", "j", "s">>
    @@ "main.css" :> <<"m", "a", "i", "n", ".", "c", "s", "s">>
    @@ "a.pyc" :> <<"a", ".", "p", "y", "c">>
    @@ "originals" :> <<"o", "r", "i", "g", "i", "n", "a", "l", "s">>
    @@ "x.md.bak" :> <<"x", ".", "m", "d", ".", "b", "a", "k">>
    @@ "TILE_map" :> <<"T", "I", "L", "E", "_", "m", "a", "p">>
    @@ "md" :> <<"m", "d">>
    @@ ".git" :> <<".", "g", "i", "t">>
    @@ "__pycache__" :> <<"_", "_", "p", "y", "c", "a", "c", "h", "e", "_", "_">>
    @@ "*.pyc" :> <<"*", ".", "p", "y", "c">>
    @@ ".DS_Store" :> <<".", "D", "S", "_", "S", "t", "o", "r", "e">>
    @@ "node_modules" :> <<"n", "o", "d", "e", "_", "m", "o", "d", "u", "l", "e", "s">>
    @@ "tile-server" :> <<"t", "i", "l", "e", "-", "s", "e", "r", "v", "e", "r">>
    @@ "server.py" :> <<"s", "e", "r", "v", "e", "r", ".", "p", "y">>
    @@ "deploy_app.py" :> <<"d", "e", "p", "l", "o", "y", "_", "a", "p", "p", ".", "p", "y">>
    @@ "*.md" :> <<"*", ".", "m", "d">>
    @@ "*.png" :> <<"*", ".", "p", "n", "g">>
    @@ "VERSION_COMPARISON.md" :> <<"V", "E", "R", "S", "I", "O", "N", "_", "C", "O", "M", "P", "A", "R", "I", "S", "O", "N", ".", "m", "d">>
    @@ "SYSTEM_DESIGN.md" :> <<"S", "Y", "S", "T", "E", "M", "_", "D", "E", "S", "I", "G", "N", ".", "m", "d">>
    @@ "TILE_*" :> <<"T", "I", "L", "E", "_", "*">>

\* a in b, for strings spelled out
Contains(b, a) ==
    \E i \in 1..(Len(b) - Len(a) + 1) : SubSeq(b, i, i + Len(a) - 1) = a

\* a variant: a anywhere in b
EndsWith_anywhere(b, a) == Contains(b, a)

\* b.endswith(a)
EndsWith(b, a) ==
    Len(a) <= Len(b) /\ SubSeq(b, Len(b) - Len(a) + 1, Len(b)) = a

\* a.startswith('*.')
StartsWithStarDot(a) == Len(a) >= 2 /\ a[1] = "*" /\ a[2] = "."

RECURSIVE PathStr(_)
\* str(path) of an absolute local path: '/' before every name
PathStr(p) ==
    IF p = <<>> THEN <<>>
    ELSE PathStr(SubSeq(p, 1, Len(p) - 1)) \o <<"/">> \o Chars[p[Len(p)]]

-----------------------------------------------------------------------------
(* AppDeployer.__init__ *)

remote_app_path == Rel(<<"bobd77.sg-host.com", "public_html", "app">>)

\* Path(__file__).parent
local_app_dir == <<"site">>

\* 'src/' and 'styles/' end in a '/': an empty last segment
upload_items ==
    << <<"index.html">>, <<"favicon.ico">>, <<"src", "">>, <<"styles", "">> >>

exclude_patterns ==
    << ".git",
       "__pycache__",
       "*.pyc",
       ".DS_Store",
       "node_modules",
       "tile-server",
       "original",
       "server.py",
       "deploy_app.py",
       "*.md",
       "*.png",
       "VERSION_COMPARISON.md",
       "SYSTEM_DESIGN.md",
       "TILE_*" >>

-----------------------------------------------------------------------------
(* The local tree the run deploys: absolute paths under local_app_dir.  *)
(* favicon.ico is missing; notes.md and original/ match a pattern.      *)

LocalFiles ==
    { local_app_dir \o <<"index.html">>,
      local_app_dir \o <<"src", "app.js">>,
      local_app_dir \o <<"src", "util.js">>,
      local_app_dir \o <<"src", "notes.md">>,
      local_app_dir \o <<"src", "core", "map.js">>,
      local_app_dir \o <<"src", "original", "old.js">>,
      local_app_dir \o <<"styles", "main.css">> }

LocalDirs ==
    { local_app_dir,
      local_app_dir \o <<"src">>,
      local_app_dir \o <<"src", "core">>,
      local_app_dir \o <<"src", "original">>,
      local_app_dir \o <<"styles">> }

\* path.name
Name(p) == p[Len(p)]

\* local_dir.iterdir()
iterdir(d) ==
    SetToSeq({p \in LocalFiles \cup LocalDirs :
                Len(p) = Len(d) + 1 /\ IsPrefix(d, p)})

\* local_app_dir / item_name
LocalItem(item_name) == Norm(local_app_dir, item_name)

-----------------------------------------------------------------------------
(* AppDeployer.should_exclude *)

RECURSIVE exclude_loop(_, _)
\* the for loop over the patterns
exclude_loop(patterns, path) ==
    IF patterns = <<>> THEN FALSE
    ELSE LET pattern == Chars[Head(patterns)]
         IN  IF Contains(PathStr(path), pattern) \/ Name(path) = Head(patterns)
             THEN TRUE
             ELSE IF StartsWithStarDot(pattern)
                     /\ EndsWith(Chars[Name(path)], Tail(pattern))
             THEN TRUE
             ELSE exclude_loop(Tail(patterns), path)

\* the answers on the nodes of the local tree, worked out once
ExcludedNodes ==
    {p \in LocalFiles \cup LocalDirs : exclude_loop(exclude_patterns, p)}

should_exclude(path) ==
    IF path \in LocalFiles \cup LocalDirs THEN path \in ExcludedNodes
    ELSE exclude_loop(exclude_patterns, path)

\* a call self.should_exclude(path), kept in the log of the session with its
\* answer
Query(s, path) ==
    [s EXCEPT !.log = Append(@, [op |-> "should_exclude", arg |-> Abs(path),
                                  cwd |-> s.cwd, path |-> path,
                                  res |-> IF should_exclude(path) THEN "True"
                                          ELSE "False",
                                  inDir |-> TRUE])]

-----------------------------------------------------------------------------
(* AppDeployer.create_remote_directory.  The method returns the session;    *)
(* exc is set when it raises.                                                *)

RECURSIVE crd_loop(_, _, _)

\* a variant that prints and does not raise
crd_raise_swallowed(s, cur) ==
    IF s.exc = "perm" THEN Caught(Say(s, "cannot_create", Rel(cur)))
    ELSE Caught(s)

\* print("Cannot create or access directory"); raise
crd_raise(s, cur) ==
    IF s.exc = "perm" THEN Say(s, "cannot_create", Rel(cur)) ELSE s

\* after ftp.cwd('/'), "Go back to root"
crd_back(s, parts, cur) ==
    IF s.exc = "none" THEN crd_loop(s, Tail(parts), cur)
    ELSE crd_raise(s, cur)

\* after ftp.cwd(current_path), the probe of a directory mkd refused
crd_probe(s, parts, cur) ==
    IF s.exc = "none" THEN crd_back(Cwd(s, Abs(<<>>)), parts, cur)
    ELSE crd_raise(s, cur)

\* after ftp.mkd(current_path)
crd_mkd(s, parts, cur) ==
    IF s.exc = "none"
    THEN crd_loop(Say(s, "created", Rel(cur)), Tail(parts), cur)
    ELSE IF s.exc = "perm"
    THEN crd_probe(Cwd(Caught(s), Rel(cur)), parts, cur)
    ELSE s

\* the for loop over parts, current_path being the prefix accumulated so far
crd_loop(s, parts, current_path) ==
    IF parts = <<>> THEN s
    ELSE IF Head(parts) = "" THEN crd_loop(s, Tail(parts), current_path)
    ELSE crd_mkd(Mkd(s, Rel(Append(current_path, Head(parts)))), parts,
                 Append(current_path, Head(parts)))

\* path.strip('/').split('/'): the segments of the path string
create_remote_directory(s, path) == crd_loop(s, path.segs, <<>>)

-----------------------------------------------------------------------------
(* AppDeployer.upload_file: [s, ret].  Every exception of the transfer is    *)
(* caught; the local file is one iterdir() or exists() has just reported, so *)
(* open() succeeds.                                                          *)

\* after ftp.storbinary(...)
uf_stored(s, local_file) ==
    IF s.exc = "none"
    THEN [s |-> Say(s, "uploaded", local_file), ret |-> TRUE]
    ELSE [s |-> Say(Caught(s), "failed_upload", local_file), ret |-> FALSE]

upload_file(s, local_file, remote_file) ==
    uf_stored(Stor(s, remote_file), local_file)

-----------------------------------------------------------------------------
(* AppDeployer.upload_directory: [s, ret], ret the uploaded count.  An       *)
(* exception that is not error_perm leaves the loop with s.exc set.          *)

RECURSIVE upload_directory(_, _, _)
RECURSIVE ud_loop(_, _, _, _)

\* a variant that leaves the loop at the first failed transfer
ud_file_abort(r, items, remote_dir, uploaded_count) ==
    IF r.ret THEN ud_loop(r.s, Tail(items), remote_dir, uploaded_count + 1)
    ELSE [s |-> r.s, ret |-> uploaded_count]

\* a variant that counts every transfer, failed or not
ud_file_counts_all(r, items, remote_dir, uploaded_count) ==
    ud_loop(r.s, Tail(items), remote_dir, uploaded_count + 1)

\* after self.upload_file(...): if it returned True, uploaded_count += 1
ud_file(r, items, remote_dir, uploaded_count) ==
    ud_loop(r.s, Tail(items), remote_dir,
            uploaded_count + (IF r.ret THEN 1 ELSE 0))

\* after the recursive call: uploaded_count += sub_count
ud_sub(sub, items, remote_dir, uploaded_count) ==
    IF sub.s.exc # "none" THEN sub
    ELSE ud_loop(sub.s, Tail(items), remote_dir, uploaded_count + sub.ret)

\* after ftp.mkd(remote_item_path): error_perm is passed over
ud_dir(s, items, remote_dir, uploaded_count) ==
    IF s.exc = "temp" THEN [s |-> s, ret |-> uploaded_count]
    ELSE ud_sub(upload_directory(
                    IF s.exc = "none"
                    THEN Say(s, "created",
                             Join(remote_dir, <<Name(Head(items))>>))
                    ELSE Caught(s),
                    Head(items),
                    Join(remote_dir, <<Name(Head(items))>>)),
                items, remote_dir, uploaded_count)

\* the item is a file or a directory: upload it, or create it and descend
ud_kept(s, items, remote_dir, uploaded_count) ==
    IF Head(items) \in LocalFiles
    THEN ud_file(upload_file(s, Head(items),
                             Join(remote_dir, <<Name(Head(items))>>)),
                 items, remote_dir, uploaded_count)
    ELSE IF Head(items) \in LocalDirs
    THEN ud_dir(Mkd(s, Join(remote_dir, <<Name(Head(items))>>)),
                items, remote_dir, uploaded_count)
    ELSE ud_loop(s, Tail(items), remote_dir, uploaded_count)

\* a variant that uploads the item whatever should_exclude answered
ud_item_no_skip(s, items, remote_dir, uploaded_count) ==
    ud_kept(s, items, remote_dir, uploaded_count)

\* after self.should_exclude(item): print "Skipped" and continue, or go on
ud_item(s, items, remote_dir, uploaded_count) ==
    IF should_exclude(Head(items))
    THEN ud_loop(Say(s, "skipped", Head(items)), Tail(items), remote_dir,
                 uploaded_count)
    ELSE ud_kept(s, items, remote_dir, uploaded_count)

\* the for loop over local_dir.iterdir()
ud_loop(s, items, remote_dir, uploaded_count) ==
    IF items = <<>> THEN [s |-> s, ret |-> uploaded_count]
    ELSE ud_item(Query(s, Head(items)), items, remote_dir, uploaded_count)

upload_directory(s, local_dir, remote_dir) ==
    ud_loop(s, iterdir(local_dir), remote_dir, 0)

-----------------------------------------------------------------------------
(* AppDeployer.remove_directory: the bare except swallows every exception *)

RECURSIVE remove_directory(_, _)
RECURSIVE rd_loop(_, _)

\* after ftp.delete(item): error_perm sends the item to remove_directory
rd_deleted(s, items) ==
    IF s.exc = "none" THEN rd_loop(s, Tail(items))
    ELSE IF s.exc = "perm"
    THEN rd_loop(remove_directory(Caught(s), Rel(<<Head(items)>>)),
                 Tail(items))
    ELSE s

\* the for loop over the listed items
rd_loop(s, items) ==
    IF items = <<>> THEN s
    ELSE IF Head(items) \in {".", ".."} THEN rd_loop(s, Tail(items))
    ELSE rd_deleted(Dele(s, Rel(<<Head(items)>>)), items)

\* after ftp.cwd('..'): ftp.rmd(path)
rd_up(s, path) ==
    IF s.exc # "none" THEN Caught(s) ELSE Caught(Rmd(s, path))

\* after the loop: ftp.cwd('..')
rd_emptied(s, path) ==
    IF s.exc # "none" THEN Caught(s) ELSE rd_up(Cwd(s, Rel(<<"..">>)), path)

\* after NLST
rd_listed(l, path) ==
    IF l.s.exc # "none" THEN Caught(l.s)
    ELSE rd_emptied(rd_loop(l.s, l.items), path)

\* a variant that goes up a level even when the directory was not entered
rd_entered_finally(s, path) ==
    IF s.exc # "none" THEN Caught(Cwd(Caught(s), Rel(<<"..">>)))
    ELSE rd_listed(Nlst(s), path)

\* after ftp.cwd(path)
rd_entered(s, path) ==
    IF s.exc # "none" THEN Caught(s) ELSE rd_listed(Nlst(s), path)

remove_directory(s, path) == rd_entered(Cwd(s, path), path)

-----------------------------------------------------------------------------
(* AppDeployer.clean_remote_directory: error_perm anywhere in the body is    *)
(* taken for "the directory does not exist yet"; any other exception leaves  *)
(* the method.                                                               *)

RECURSIVE clean_loop(_, _)

\* after self.remove_directory(ftp, item)
clean_removed(s, items) ==
    clean_loop(IF s.exc = "none"
               THEN Say(s, "deleted_directory", Head(items))
               ELSE Say(Caught(s), "could_not_delete", Head(items)),
               Tail(items))

\* after ftp.delete(item)
clean_deleted(s, items) ==
    IF s.exc = "none"
    THEN clean_loop(Say(s, "deleted_file", Head(items)), Tail(items))
    ELSE IF s.exc = "perm"
    THEN clean_removed(remove_directory(Caught(s), Rel(<<Head(items)>>)),
                       items)
    ELSE s

\* the for loop over the listed items
clean_loop(s, items) ==
    IF items = <<>> THEN s
    ELSE IF Head(items) \in {".", ".."} THEN clean_loop(s, Tail(items))
    ELSE clean_deleted(Dele(s, Rel(<<Head(items)>>)), items)

\* a variant that lets error_perm through
clean_except_missing(s, remote_path) == s

\* the except ftplib.error_perm clause
clean_except(s, remote_path) ==
    IF s.exc = "perm" THEN Say(Caught(s), "doesnt_exist_yet", remote_path)
    ELSE s

\* after the loop: ftp.cwd('/'), "Go back to root"
clean_emptied(s, remote_path) ==
    IF s.exc # "none" THEN clean_except(s, remote_path)
    ELSE clean_except(Cwd(s, Abs(<<>>)), remote_path)

\* after NLST
clean_listed(l, remote_path) ==
    IF l.s.exc # "none" THEN clean_except(l.s, remote_path)
    ELSE clean_emptied(clean_loop(l.s, l.items), remote_path)

\* after ftp.cwd(remote_path)
clean_entered(s, remote_path) ==
    IF s.exc # "none" THEN clean_except(s, remote_path)
    ELSE clean_listed(Nlst(s), remote_path)

clean_remote_directory(s, remote_path) ==
    clean_entered(Cwd(s, remote_path), remote_path)

-----------------------------------------------------------------------------
(* AppDeployer.deploy: the loop over upload_items, [s, ret] *)

RECURSIVE deploy_loop(_, _, _)

\* after self.upload_file(...): if it returned True, total_uploaded += 1
deploy_file(r, items, total) ==
    deploy_loop(r.s, Tail(items), total + (IF r.ret THEN 1 ELSE 0))

\* a variant that leaves the count of the directory out of the total
deploy_sub_forgets(sub, items, total) ==
    IF sub.s.exc # "none" THEN [s |-> sub.s, ret |-> total]
    ELSE deploy_loop(sub.s, Tail(items), total)

\* after self.upload_directory(...): total_uploaded += count
deploy_sub(sub, items, total) ==
    IF sub.s.exc # "none" THEN [s |-> sub.s, ret |-> total]
    ELSE deploy_loop(sub.s, Tail(items), total + sub.ret)

\* after ftp.mkd(remote_item_path): error_perm is passed over
deploy_dir(s, items, total) ==
    IF s.exc = "temp" THEN [s |-> s, ret |-> total]
    ELSE deploy_sub(upload_directory(
                        IF s.exc = "none"
                        THEN Say(s, "created",
                                 Join(remote_app_path, Head(items)))
                        ELSE Caught(s),
                        LocalItem(Head(items)),
                        Join(remote_app_path, Head(items))),
                    items, total)

\* the item exists: upload it, or create it and descend
deploy_kept(s, items, total) ==
    IF LocalItem(Head(items)) \in LocalFiles
    THEN deploy_file(upload_file(s, LocalItem(Head(items)),
                                 Join(remote_app_path, Head(items))),
                     items, total)
    ELSE deploy_dir(Mkd(s, Join(remote_app_path, Head(items))), items, total)

\* a variant that asks should_exclude about the items of the list as well
deploy_loop_filtered(s, items, total) ==
    IF items = <<>> THEN [s |-> s, ret |-> total]
    ELSE IF LocalItem(Head(items)) \notin LocalFiles \cup LocalDirs
    THEN deploy_loop(Say(s, "skipped_missing", Head(items)), Tail(items),
                     total)
    ELSE IF should_exclude(LocalItem(Head(items)))
    THEN deploy_loop(Query(s, LocalItem(Head(items))), Tail(items), total)
    ELSE deploy_kept(Query(s, LocalItem(Head(items))), items, total)

\* for item_name in self.upload_items
deploy_loop(s, items, total) ==
    IF items = <<>> THEN [s |-> s, ret |-> total]
    ELSE IF LocalItem(Head(items)) \notin LocalFiles \cup LocalDirs
    THEN deploy_loop(Say(s, "skipped_missing", Head(items)), Tail(items),
                     total)
    ELSE deploy_kept(s, items, total)

-----------------------------------------------------------------------------
(* The environment: where login lands, what the remote store holds when the  *)
(* run starts, and which calls the server refuses.                           *)

\* the working directory after login: the server root, or a home directory
LoginDirs == { <<>>, <<"home">> }

\* the first k prefixes of remote_app_path, resolved in directory L
Chain(L, k) ==
    {Resolve(L, Rel(SubSeq(remote_app_path.segs, 1, i))) : i \in 1..k}

\* what an earlier deployment left under R: a stale file and a nested tree
StaleDirs(R) == { R \o <<"src">>, R \o <<"src", "core">> }
StaleFiles(R) ==
    { R \o <<"old.txt">>, R \o <<"src", "app.js">>,
      R \o <<"src", "core", "map.js">> }

\* the stores a run may meet: k prefixes of the root exist under L, with or
\* without the remains of an earlier deployment, and the same chain may
\* exist under the server root as well
Stores(L) ==
    LET n == Len(remote_app_path.segs)
        R == Resolve(L, remote_app_path)
        plain == {[dirs |-> {<<>>, L} \cup Chain(L, k), files |-> {}] :
                    k \in 0..n}
        stale == {[dirs |-> {<<>>, L} \cup Chain(L, n) \cup StaleDirs(R),
                   files |-> StaleFiles(R)]}
        under == plain \cup stale
    IN  under \cup {[st EXCEPT !.dirs = @ \cup Chain(<<>>, n)] : st \in under}

\* the calls a server may refuse for a run in login directory L on store st:
\* creating or storing what the run creates or stores, and entering, listing,
\* deleting or removing what the store holds
Refusable(L, st, cleaning) ==
    LET R == Resolve(L, remote_app_path)
        made == Chain(L, Len(remote_app_path.segs))
                  \cup {R \o <<"src">>, R \o <<"src", "core">>,
                        R \o <<"styles">>}
        sent == {R \o <<"index.html">>, R \o <<"src", "app.js">>,
                 R \o <<"src", "util.js">>, R \o <<"src", "core", "map.js">>,
                 R \o <<"styles", "main.css">>}
        held == IF cleaning THEN st.dirs \ {L} ELSE (st.dirs \ {L}) \ StaleDirs(R)
    IN  {[op |-> "mkd", path |-> p, kind |-> k] :
            p \in made, k \in {"perm", "temp"}}
        \cup {[op |-> "stor", path |-> p, kind |-> "perm"] : p \in sent}
        \cup {[op |-> "cwd", path |-> p, kind |-> k] :
                p \in held, k \in {"perm", "temp"}}
        \cup (IF cleaning
              THEN {[op |-> "nlst", path |-> p, kind |-> k] :
                      p \in st.dirs \cap ({R} \cup StaleDirs(R)),
                      k \in {"perm", "temp"}}
                   \cup {[op |-> "dele", path |-> p, kind |-> k] :
                           p \in st.files, k \in {"perm", "temp"}}
                   \cup {[op |-> "rmd", path |-> p, kind |-> "perm"] :
                           p \in st.dirs \cap StaleDirs(R)}
              ELSE {})

RECURSIVE UpTo(_, _)
\* the subsets of U of at most n elements
UpTo(U, n) ==
    IF n = 0 THEN {{}}
    ELSE LET S == UpTo(U, n - 1)
         IN  S \cup {F \cup {f} : F \in S, f \in U}

\* the sets of at most MaxFaults refusals, no call refused in two ways
FaultSets(U) ==
    {F \in UpTo(U, MaxFaults) :
        \A f, g \in F : (f.op = g.op /\ f.path = g.path) => f = g}

\* a session on store st with working directory d
Session(st, d) ==
    [dirs |-> st.dirs, files |-> st.files, cwd |-> d, log |-> <<>>,
     out |-> <<>>, exc |-> "none"]

-----------------------------------------------------------------------------
(* A run of deploy(), one action per phase *)

Init ==
    /\ pc = "Start"
    /\ clean \in BOOLEAN
    /\ loginDir \in LoginDirs
    /\ \E st \in Stores(loginDir) :
          /\ sess = Session(st, <<>>)
          /\ faults \in FaultSets(Refusable(loginDir, st, clean))
    /\ open = FALSE
    /\ closes = 0
    /\ total_uploaded = 0
    /\ result = "none"
    /\ before = sess
    /\ failedIn = "none"

\* a variant without the with block: nothing closes the session
Close_never == UNCHANGED <<open, closes>>

\* leaving the with block: FTP.__exit__ closes the session
Close == open' = FALSE /\ closes' = closes + 1

\* an exception reaches the except clauses of deploy(): return False
Fail(phase) == pc' = "Failed" /\ result' = "False" /\ failedIn' = phase

\* if not self.check_credentials(): return False
CheckCredentials ==
    /\ pc = "Start"
    /\ \E configured \in BOOLEAN :
          IF configured
          THEN pc' = "Disconnected" /\ UNCHANGED result
          ELSE pc' = "Failed" /\ result' = "False"
    /\ UNCHANGED <<clean, loginDir, faults, sess, open, closes,
                   total_uploaded, before, failedIn>>

\* ftplib.FTP(self.host): the constructor connects, or raises
Connect ==
    /\ pc = "Disconnected"
    /\ \E reached \in BOOLEAN :
          IF reached
          THEN pc' = "Opened" /\ open' = TRUE /\ UNCHANGED <<result, failedIn>>
          ELSE Fail("Connect") /\ UNCHANGED open
    /\ UNCHANGED <<clean, loginDir, faults, sess, closes, total_uploaded,
                   before>>

\* ftp.login(self.username, self.password)
Login ==
    /\ pc = "Opened"
    /\ \E accepted \in BOOLEAN :
          IF accepted
          THEN /\ pc' = "Connected"
               /\ sess' = [sess EXCEPT !.cwd = loginDir]
               /\ UNCHANGED <<result, open, closes, failedIn>>
          ELSE Fail("Login") /\ Close /\ UNCHANGED sess
    /\ UNCHANGED <<clean, loginDir, faults, total_uploaded, before>>

\* self.create_remote_directory(ftp, self.remote_app_path)
EnsureRoot ==
    /\ pc = "Connected"
    /\ sess' = create_remote_directory(sess, remote_app_path)
    /\ IF sess'.exc = "none"
       THEN pc' = "RootEnsured" /\ UNCHANGED <<result, open, closes, failedIn>>
       ELSE Fail("EnsureRoot") /\ Close
    /\ before' = sess
    /\ UNCHANGED <<clean, loginDir, faults, total_uploaded>>

\* a variant that runs the clean pass whether or not clean was asked for
Clean_unasked ==
    /\ pc = "RootEnsured"
    /\ sess' = clean_remote_directory(sess, remote_app_path)
    /\ IF sess'.exc = "none"
       THEN pc' = "Cleaned" /\ UNCHANGED <<result, open, closes, failedIn>>
       ELSE Fail("Clean") /\ Close
    /\ before' = sess
    /\ UNCHANGED <<clean, loginDir, faults, total_uploaded>>

\* if clean: self.clean_remote_directory(ftp, self.remote_app_path)
Clean ==
    /\ pc = "RootEnsured"
    /\ clean
    /\ sess' = clean_remote_directory(sess, remote_app_path)
    /\ IF sess'.exc = "none"
       THEN pc' = "Cleaned" /\ UNCHANGED <<result, open, closes, failedIn>>
       ELSE Fail("Clean") /\ Close
    /\ before' = sess
    /\ UNCHANGED <<clean, loginDir, faults, total_uploaded>>

SkipClean ==
    /\ pc = "RootEnsured"
    /\ ~clean
    /\ pc' = "SkipClean"
    /\ UNCHANGED <<clean, loginDir, faults, sess, open, closes,
                   total_uploaded, result, before, failedIn>>

\* the outcome of the loop over upload_items
Uploaded(r) ==
    /\ sess' = r.s
    /\ total_uploaded' = r.ret
    /\ IF r.s.exc = "none"
       THEN pc' = "Uploaded" /\ UNCHANGED <<result, open, closes, failedIn>>
       ELSE Fail("Upload") /\ Close

\* total_uploaded = 0; for item_name in self.upload_items: ...
Upload ==
    /\ pc \in {"Cleaned", "SkipClean"}
    /\ Uploaded(deploy_loop(sess, upload_items, 0))
    /\ before' = sess
    /\ UNCHANGED <<clean, loginDir, faults>>

\* the summary is printed, return True leaves the with block
Report ==
    /\ pc = "Uploaded"
    /\ pc' = "Reported"
    /\ sess' = Say(sess, "total_uploaded", total_uploaded)
    /\ result' = "True"
    /\ Close
    /\ UNCHANGED <<clean, loginDir, faults, total_uploaded, before, failedIn>>

Next ==
    \/ CheckCredentials
    \/ Connect
    \/ Login
    \/ EnsureRoot
    \/ Clean
    \/ SkipClean
    \/ Upload
    \/ Report

Spec == Init /\ [][Next]_vars

-----------------------------------------------------------------------------
(* create_remote_directory on its own: the method is called on             *)
(* remote_app_path in a session whose working directory is loginDir, and   *)
(* then, if it returned, a second time.                                    *)

\* the refusals that bear on the method: those of mkd and cwd
EnsureRefusable(L, st) ==
    {f \in Refusable(L, st, FALSE) : f.op \in {"mkd", "cwd"}}

InitEnsure ==
    /\ pc = "Ensure0"
    /\ clean = FALSE
    /\ loginDir \in LoginDirs
    /\ \E st \in Stores(loginDir) :
          /\ sess = Session(st, loginDir)
          /\ faults \in FaultSets(EnsureRefusable(loginDir, st))
    /\ open = TRUE
    /\ closes = 0
    /\ total_uploaded = 0
    /\ result = "none"
    /\ before = sess
    /\ failedIn = "none"

\* one call; the log starts afresh so that it is the log of this call
EnsureCall(returned, raised) ==
    /\ sess' = create_remote_directory([sess EXCEPT !.log = <<>>, !.out = <<>>],
                                       remote_app_path)
    /\ pc' = IF sess'.exc = "none" THEN returned ELSE raised
    /\ before' = sess
    /\ UNCHANGED <<clean, loginDir, faults, open, closes, total_uploaded,
                   result, failedIn>>

Ensure ==
    /\ pc = "Ensure0"
    /\ EnsureCall("Ensure1", "Raised1")

EnsureAgain ==
    /\ pc = "Ensure1"
    /\ EnsureCall("Ensure2", "Raised2")

NextEnsure == Ensure \/ EnsureAgain

SpecEnsure == InitEnsure /\ [][NextEnsure]_vars

-----------------------------------------------------------------------------
(* clean_remote_directory on its own: the method is called on               *)
(* remote_app_path in a session whose working directory is loginDir; the    *)
(* target may exist or not.                                                 *)

InitClean ==
    /\ pc = "Clean0"
    /\ clean = TRUE
    /\ loginDir \in LoginDirs
    /\ \E st \in Stores(loginDir) :
          /\ sess = Session(st, loginDir)
          /\ faults \in FaultSets({f \in Refusable(loginDir, st, TRUE) :
                                     f.op \in {"cwd", "nlst", "dele", "rmd"}})
    /\ open = TRUE
    /\ closes = 0
    /\ total_uploaded = 0
    /\ result = "none"
    /\ before = sess
    /\ failedIn = "none"

CleanCall ==
    /\ pc = "Clean0"
    /\ sess' = clean_remote_directory(sess, remote_app_path)
    /\ pc' = IF sess'.exc = "none" THEN "CleanReturned" ELSE "CleanRaised"
    /\ before' = sess
    /\ UNCHANGED <<clean, loginDir, faults, open, closes, total_uploaded,
                   result, failedIn>>

NextClean == CleanCall

SpecClean == InitClean /\ [][NextClean]_vars

-----------------------------------------------------------------------------
(* should_exclude on its own: the method is called on a path, with a list   *)
(* of patterns in self.exclude_patterns; sess holds the two, result the     *)
(* answer.                                                                  *)

\* the paths asked about: a name in a directory
ExcludePaths ==
    {d \o <<n>> :
        d \in {local_app_dir, local_app_dir \o <<"src">>,
               local_app_dir \o <<"original">>, local_app_dir \o <<".git">>},
        n \in {"index.html", "app.js", "notes.md", "a.pyc", "x.md.bak", "md",
               "original", "originals", "TILE_map", "server.py", "src"}}

\* the pattern lists: the stretches of the configured list
ExcludeLists ==
    {SubSeq(exclude_patterns, i, j) :
        i \in 1..(Len(exclude_patterns) + 1), j \in 0..Len(exclude_patterns)}

InitExclude ==
    /\ pc = "Exclude0"
    /\ clean = FALSE
    /\ loginDir = <<>>
    /\ faults = {}
    /\ sess \in [path : ExcludePaths, patterns : ExcludeLists]
    /\ open = FALSE
    /\ closes = 0
    /\ total_uploaded = 0
    /\ result = "none"
    /\ before = sess
    /\ failedIn = "none"

ExcludeCall ==
    /\ pc = "Exclude0"
    /\ pc' = "Excluded"
    /\ result' = IF exclude_loop(sess.patterns, sess.path) THEN "True"
                 ELSE "False"
    /\ UNCHANGED <<clean, loginDir, faults, sess, open, closes,
                   total_uploaded, before, failedIn>>

NextExclude == ExcludeCall

SpecExclude == InitExclude /\ [][NextExclude]_vars

-----------------------------------------------------------------------------
(* What the properties below read off a state *)

Range(q) == {q[i] : i \in DOMAIN q}

\* the calls of the log with operation op
Calls(op) == {i \in DOMAIN sess.log : sess.log[i].op = op}

\* the local files a run is to upload: those below a top-level item, no node
\* below the item matched by the Exclusion Matcher
Deployable ==
    {f \in LocalFiles :
        \E k \in DOMAIN upload_items :
            /\ IsPrefix(LocalItem(upload_items[k]), f)
            /\ \A n \in (Len(LocalItem(upload_items[k])) + 1)..Len(f) :
                   ~should_exclude(SubSeq(f, 1, n))}

\* the remote path of local file f, relative to the working directory
RemotePath(f) ==
    remote_app_path.segs \o SubSeq(f, Len(local_app_dir) + 1, Len(f))

\* the local node a remote path argument of the upload pass stands for:
\* RemotePath(LocalOf(arg)) is the path arg names
LocalOf(arg) ==
    local_app_dir \o SubSeq(Norm(<<>>, arg.segs),
                            Len(remote_app_path.segs) + 1,
                            Len(Norm(<<>>, arg.segs)))

\* the local files whose STOR has been issued, and with which outcome
Stored(res) ==
    {LocalOf(sess.log[i].arg) :
        i \in {j \in Calls("stor") : sess.log[j].res \in res}}

\* the directory the last call was to work on
Target == Resolve(before.cwd, remote_app_path)

-----------------------------------------------------------------------------
(* C1.  Every directory on the remote path of a file exists (created, or    *)
(* found to exist) when the STOR of the file is issued.  The store keeps a  *)
(* directory's ancestors, so this is: the directory the file goes in exists.*)
(* The code fails it: upload_directory passes over a refused mkd, and the   *)
(* working directory may have moved between the ensure and the upload.      *)
C1_CreatedBeforeUpload ==
    \A i \in Calls("stor") : sess.log[i].inDir

-----------------------------------------------------------------------------
(* C2.  create_remote_directory returns with the working directory it was   *)
(* called in.  The code fails it: after a probe it goes to '/'.             *)
C2_CwdPreserved ==
    pc = "Ensure1" => sess.cwd = before.cwd

-----------------------------------------------------------------------------
(* C3.  create_remote_directory attempts the prefixes of the path in order, *)
(* shortest first, and when it returns every prefix exists in the directory *)
(* it was called in.  The code fails the second half, because of C2.        *)
C3_PrefixesInOrderAndExist ==
    pc = "Ensure1" =>
        /\ \A i, j \in Calls("mkd") :
               i < j => Len(sess.log[i].arg.segs) < Len(sess.log[j].arg.segs)
        /\ {sess.log[i].arg : i \in Calls("mkd")} =
               {Rel(SubSeq(remote_app_path.segs, 1, n)) :
                    n \in 1..Len(remote_app_path.segs)}
        /\ Chain(before.cwd, Len(remote_app_path.segs)) \subseteq sess.dirs

-----------------------------------------------------------------------------
(* C4.  A second create_remote_directory on the same path, right after one  *)
(* that returned, returns, creates nothing, and leaves the store and the    *)
(* working directory as they were.  The code fails it, because of C2.       *)
C4_SecondEnsureNoOp ==
    pc \in {"Ensure2", "Raised2"} =>
        /\ pc = "Ensure2"
        /\ \A i \in Calls("mkd") : sess.log[i].res # "ok"
        /\ sess.dirs = before.dirs
        /\ sess.files = before.files
        /\ sess.cwd = before.cwd

-----------------------------------------------------------------------------
(* C5.  When the ensure of the deployment root fails (the mkd of a prefix   *)
(* is refused and so is the cwd into it), deploy() returns False, the       *)
(* session is closed, once, and the run has issued no DELE, RMD or STOR.    *)

\* a refused mkd followed by a refused cwd into the same directory
RootEnsureFailed ==
    \E i \in Calls("mkd") :
        /\ sess.log[i].res # "ok"
        /\ i + 1 \in Calls("cwd")
        /\ sess.log[i + 1].path = sess.log[i].path
        /\ sess.log[i + 1].res # "ok"

C5_RootEnsureFailureAborts ==
    RootEnsureFailed =>
        /\ pc = "Failed"
        /\ result = "False"
        /\ ~open
        /\ closes = 1
        /\ Calls("dele") \cup Calls("rmd") \cup Calls("stor") = {}

C5_Witness ==
    /\ RootEnsureFailed
    /\ pc = "Failed"
    /\ failedIn = "EnsureRoot"

-----------------------------------------------------------------------------
(* C6.  When clean_remote_directory returns from a target it has entered   *)
(* and listed, every RMD was issued after the DELE of each entry of the     *)
(* directory it removes, and whatever is left under the target is an entry  *)
(* whose DELE or RMD was refused, or lies above or below one.  The code     *)
(* fails it: an exception inside remove_directory leaves the working        *)
(* directory a level too deep, and the entries that follow are deleted      *)
(* there.                                                                   *)

\* the entries the pass listed in the target
Listed ==
    IF /\ Len(sess.log) >= 2
       /\ sess.log[1].op = "cwd" /\ sess.log[1].res = "ok"
       /\ sess.log[2].op = "nlst" /\ sess.log[2].res = "ok"
    THEN ChildNames(before, Target)
    ELSE {}

\* the deletion of p, or of an entry above or below p, was refused
Excused(p) ==
    \E i \in Calls("dele") \cup Calls("rmd") :
        /\ sess.log[i].res # "ok"
        /\ IsPrefix(p, sess.log[i].path) \/ IsPrefix(sess.log[i].path, p)
        /\ IsPrefix(Target, sess.log[i].path)

C6_CleanLeavesOnlyRefused ==
    (pc = "CleanReturned" /\ Listed # {}) =>
        /\ \A i \in Calls("rmd") :
               \A q \in before.dirs \cup before.files :
                   (q # <<>> /\ Parent(q) = sess.log[i].path) =>
                       \E j \in Calls("dele") :
                           j < i /\ sess.log[j].path = q
        /\ \A p \in sess.dirs \cup sess.files :
               (IsPrefix(Target, p) /\ p # Target) => Excused(p)

-----------------------------------------------------------------------------
(* C7.  After a clean pass that listed the target, every listed entry that  *)
(* is still there has its "Could not delete" line, and a DELE was issued    *)
(* for every listed entry.  The code fails the first half: remove_directory *)
(* raises nothing, so the line is never printed.                            *)

C7_UndeletableLogged ==
    pc = "CleanReturned" =>
        \A n \in Listed :
            /\ \E i \in Calls("dele") : sess.log[i].arg = Rel(<<n>>)
            /\ Append(Target, n) \in sess.dirs \cup sess.files
                   => <<"could_not_delete", n>> \in Range(sess.out)

-----------------------------------------------------------------------------
(* C8.  clean_remote_directory on a target that does not exist returns, has *)
(* issued no DELE and no RMD, and leaves the store and the working          *)
(* directory as they were.                                                  *)
C8_CleanMissingIsNoOp ==
    (pc \in {"CleanReturned", "CleanRaised"} /\ Target \notin before.dirs) =>
        /\ pc = "CleanReturned"
        /\ Calls("dele") \cup Calls("rmd") = {}
        /\ sess.dirs = before.dirs
        /\ sess.files = before.files
        /\ sess.cwd = before.cwd

C8_Witness ==
    /\ pc = "CleanReturned"
    /\ Target \notin before.dirs
    /\ <<"doesnt_exist_yet", remote_app_path>> \in Range(sess.out)

-----------------------------------------------------------------------------
(* C9.  A failed transfer does not end the run: once the upload pass has    *)
(* begun, and unless an mkd raised something other than error_perm, the     *)
(* pass completes and has issued the STOR of every file to deploy.          *)

\* the upload pass is over, by completion or by an exception
UploadOver == pc \in {"Uploaded", "Reported"} \/ failedIn = "Upload"

C9_FailedTransferDoesNotAbort ==
    (UploadOver /\ \A i \in Calls("mkd") : sess.log[i].res # "temp") =>
        /\ pc \in {"Uploaded", "Reported"}
        /\ Stored({"ok", "perm", "temp"}) = Deployable

\* a transfer failed, and after it one in the same directory and one in
\* another directory went through
C9_Witness ==
    /\ pc = "Uploaded"
    /\ \E i, j, k \in Calls("stor") :
          /\ i < j /\ i < k
          /\ sess.log[i].res # "ok"
          /\ sess.log[j].res = "ok"
          /\ sess.log[k].res = "ok"
          /\ Parent(sess.log[i].path) = Parent(sess.log[j].path)
          /\ Parent(sess.log[i].path) # Parent(sess.log[k].path)

-----------------------------------------------------------------------------
(* C10.  As amended: the result of the upload pass is the count of the      *)
(* files whose transfer succeeded, and nothing else; each failed transfer   *)
(* has its "Failed to upload" line, and only failed transfers have one.     *)

\* the local files with a line msg in the output
Lines(msg) == {o[2] : o \in {x \in Range(sess.out) : x[1] = msg}}

FailureList(ret) == {}

-----------------------------------------------------------------------------
(* C11.  A child for which should_exclude answers True is skipped by        *)
(* upload_directory: no MKD and no STOR is issued for it or for anything    *)
(* below it, it has neither an "Uploaded" nor a "Failed to upload" line,    *)
(* and it is not counted: the count never exceeds the number of files to    *)
(* deploy, and equals it when no transfer failed.                           *)

\* the local nodes at or below a child that should_exclude matches
Skippable ==
    {p \in LocalFiles \cup LocalDirs :
        \E k \in DOMAIN upload_items :
            /\ IsPrefix(LocalItem(upload_items[k]), p)
            /\ \E n \in (Len(LocalItem(upload_items[k])) + 1)..Len(p) :
                   should_exclude(SubSeq(p, 1, n))}

C11_ExcludedSkipped ==
    /\ \A i \in Calls("mkd") \cup Calls("stor") :
          LocalOf(sess.log[i].arg) \notin Skippable
    /\ \A o \in Range(sess.out) :
          o[1] \in {"uploaded", "failed_upload"} => o[2] \notin Skippable
    /\ pc \in {"Uploaded", "Reported"} =>
          /\ total_uploaded <= Cardinality(Deployable)
          /\ (\A i \in Calls("stor") : sess.log[i].res = "ok")
                 => total_uploaded = Cardinality(Deployable)

\* a run that skipped an excluded file and an excluded directory, and
\* uploaded every other file
C11_Witness ==
    /\ pc = "Uploaded"
    /\ <<"skipped", local_app_dir \o <<"src", "notes.md">> >> \in Range(sess.out)
    /\ <<"skipped", local_app_dir \o <<"src", "original">> >> \in Range(sess.out)
    /\ total_uploaded = Cardinality(Deployable)
    /\ Skippable # {}

-----------------------------------------------------------------------------
(* C12.  After a run without clean in which no transfer failed, every file  *)
(* to deploy is on the store at its relative path under the deployment      *)
(* root, the run has created nothing else (so nothing of an excluded        *)
(* directory), and the count is the number of files to deploy.              *)

\* where local file f is to land: its path relative to local_app_dir, under
\* the root as the upload pass resolves it
Landed(f) == Target \o SubSeq(f, Len(local_app_dir) + 1, Len(f))

C12_TreeMirrored ==
    (/\ pc \in {"Uploaded", "Reported"}
     /\ ~clean
     /\ \A i \in Calls("stor") : sess.log[i].res = "ok") =>
        /\ \A f \in Deployable : Landed(f) \in sess.files
        /\ \A p \in (sess.dirs \cup sess.files)
                        \ (before.dirs \cup before.files) :
               \E f \in Deployable : IsPrefix(p, Landed(f))
        /\ total_uploaded = Cardinality(Deployable)

\* such a run, on a store that held none of the files
C12_Witness ==
    /\ pc = "Reported"
    /\ ~clean
    /\ Calls("stor") # {}
    /\ \A i \in Calls("stor") : sess.log[i].res = "ok"
    /\ before.files = {}
    /\ Cardinality(sess.files) = Cardinality(Deployable)
    /\ total_uploaded = 5

-----------------------------------------------------------------------------
(* C13.  The phases of a run follow one another in the order connect,       *)
(* login, ensure root, clean (only when clean was asked for), upload,       *)
(* report, each at most once; a STOR is issued only by the upload pass,     *)
(* after the ensure and the clean pass are over; NLST, DELE and RMD are     *)
(* issued only by a clean pass that was asked for, and so before every      *)
(* STOR.                                                                    *)

\* the steps of the run other than into the failure state
PhaseSteps ==
    { <<"Start", "Disconnected">>, <<"Disconnected", "Opened">>,
      <<"Opened", "Connected">>, <<"Connected", "RootEnsured">>,
      <<"RootEnsured", "Cleaned">>, <<"RootEnsured", "SkipClean">>,
      <<"Cleaned", "Uploaded">>, <<"SkipClean", "Uploaded">>,
      <<"Uploaded", "Reported">> }

\* the calls a step adds to the log
Issued == SubSeq(sess'.log, Len(sess.log) + 1, Len(sess'.log))

PhaseStep ==
    /\ pc' # pc
    /\ pc \notin {"Reported", "Failed"}
    /\ pc' # "Failed" => <<pc, pc'>> \in PhaseSteps
    /\ pc' = "Cleaned" => clean
    /\ pc' = "SkipClean" => ~clean
    /\ SubSeq(sess'.log, 1, Len(sess.log)) = sess.log
    /\ \A i \in DOMAIN Issued :
          /\ pc \in {"Connected", "RootEnsured", "Cleaned", "SkipClean"}
          /\ Issued[i].op \in {"stor", "should_exclude"}
                 => pc \in {"Cleaned", "SkipClean"}
          /\ Issued[i].op \in {"nlst", "dele", "rmd"}
                 => pc = "RootEnsured" /\ clean
          /\ pc = "Connected" => Issued[i].op \in {"mkd", "cwd"}

DeletionsBeforeUploads ==
    \A i \in Calls("nlst") \cup Calls("dele") \cup Calls("rmd") :
        /\ clean
        /\ \A j \in Calls("stor") : i < j

C13_PhaseOrder == []DeletionsBeforeUploads /\ [][PhaseStep]_vars

\* a run that cleaned, deleting something, then uploaded, then reported
C13_Witness ==
    /\ pc = "Reported"
    /\ clean
    /\ \E i \in Calls("dele") : sess.log[i].res = "ok"
    /\ \E j \in Calls("stor") : sess.log[j].res = "ok"

-----------------------------------------------------------------------------
(* C14.  A run opens at most one session, and never another after closing   *)
(* it; the session is open from the connection to the end of the upload     *)
(* pass; when the run is over, in "Reported" or in "Failed", the session is *)
(* not open and was closed exactly once if it was ever opened; and a run    *)
(* that is not over is in a phase deploy() goes on from.                    *)

\* the run has opened a session
SessionOpened ==
    \/ pc \in {"Opened", "Connected", "RootEnsured", "Cleaned", "SkipClean",
               "Uploaded", "Reported"}
    \/ failedIn \in {"Login", "EnsureRoot", "Clean", "Upload"}

RunOver == pc \in {"Reported", "Failed"}

SessionScoped ==
    /\ closes <= 1
    /\ open => closes = 0 /\ SessionOpened /\ ~RunOver
    /\ (SessionOpened /\ ~RunOver) => open
    /\ RunOver => ~open /\ closes = (IF SessionOpened THEN 1 ELSE 0)
    /\ ~RunOver => pc \in {p[1] : p \in PhaseSteps}

\* a session is opened by the connection only, once
OpenedOnce == (open' /\ ~open) => (pc = "Disconnected" /\ closes = 0)

C14_SessionClosedOnce ==
    /\ []SessionScoped
    /\ [][OpenedOnce]_vars

\* a run that failed in the upload pass, its session closed
C14_Witness ==
    /\ pc = "Failed"
    /\ failedIn = "Upload"
    /\ closes = 1
    /\ ~open

-----------------------------------------------------------------------------
(* C15.  should_exclude answers True exactly when some pattern of the list  *)
(* is a substring of the path's string, or is the path's name, or begins    *)
(* with '*.' and the name ends with the rest of the pattern after the '*';  *)
(* a '*' elsewhere is an ordinary character.  The answers to a table of     *)
(* paths and patterns are as the three steps give them.                     *)

\* the three steps, for one pattern
Matches(pattern, path) ==
    \/ Contains(PathStr(path), Chars[pattern])
    \/ Name(path) = pattern
    \/ /\ Chars[pattern][1] = "*"
       /\ Chars[pattern][2] = "."
       /\ \E k \in 0..Len(Chars[Name(path)]) :
              Chars[Name(path)] =
                  SubSeq(Chars[Name(path)], 1, k) \o Tail(Chars[pattern])

\* path, patterns, answer
ExcludeTable ==
    { <<local_app_dir \o <<"src", "notes.md">>, <<"*.md">>, "True">>,
      <<local_app_dir \o <<"src", "a.pyc">>, <<"*.pyc">>, "True">>,
      <<local_app_dir \o <<"src", "x.md.bak">>, <<"*.md">>, "False">>,
      <<local_app_dir \o <<"src", "md">>, <<"*.md">>, "False">>,
      <<local_app_dir \o <<"src", "TILE_map">>, <<"TILE_*">>, "False">>,
      <<local_app_dir \o <<"src", "original">>, <<"original">>, "True">>,
      <<local_app_dir \o <<"src", "originals">>, <<"original">>, "True">>,
      <<local_app_dir \o <<"original", "app.js">>, <<"original">>, "True">>,
      <<local_app_dir \o <<".git", "index.html">>, <<".git">>, "True">>,
      <<local_app_dir \o <<"src", "server.py">>, <<"tile-server">>, "False">>,
      <<local_app_dir \o <<"src", "app.js">>, <<>>, "False">>,
      <<local_app_dir \o <<"src", "app.js">>, exclude_patterns, "False">> }

C15_ThreeStepPolicy ==
    pc = "Excluded" =>
        /\ result = "True" <=>
               \E i \in DOMAIN sess.patterns :
                   Matches(sess.patterns[i], sess.path)
        /\ result \in {"True", "False"}
        /\ \A t \in ExcludeTable :
               (sess.path = t[1] /\ sess.patterns = t[2]) => result = t[3]

\* a name excluded by the '*.' step alone
C15_Witness ==
    /\ pc = "Excluded"
    /\ result = "True"
    /\ sess.path = local_app_dir \o <<"src", "notes.md">>
    /\ sess.patterns = <<"*.md">>

-----------------------------------------------------------------------------
(* C16.  deploy() returns False only for a fatal failure: missing           *)
(* credentials, a failed connection, a failed login or a failed ensure of   *)
(* the root.  A run that got past the ensure of the root returns True,      *)
(* whatever transfers, deletions and directory creations failed in it.  The *)
(* code fails it: only error_perm is passed over, and any other FTP error   *)
(* of a DELE or of an MKD ends the run with False.  (A run ended by a       *)
(* refused NLST or CWD is not held against the property.)                   *)

\* the call that raised the exception that ended the run
Raiser == sess.log[Len(sess.log)].op

C16_OnlyFatalFailureReported ==
    /\ (pc = "Failed" /\ failedIn \in {"Clean", "Upload"})
          => Raiser \notin {"stor", "dele", "rmd", "mkd"}
    /\ pc = "Reported" => result = "True"
    /\ failedIn \in {"Connect", "Login", "EnsureRoot"}
          => pc = "Failed" /\ result = "False"

-----------------------------------------------------------------------------
(* C17.  As amended: should_exclude is asked once about every node that     *)
(* upload_directory visits (the nodes below a top-level item with no        *)
(* excluded node between the item and them), before any MKD or STOR is      *)
(* issued for the node; it is never asked about a top-level item.           *)

\* the top-level items that exist, as local paths
TopLevel ==
    {LocalItem(upload_items[k]) : k \in DOMAIN upload_items}
        \cap (LocalFiles \cup LocalDirs)

\* the nodes upload_directory comes to in a run that is not cut short
Visited ==
    {p \in LocalFiles \cup LocalDirs :
        \E top \in TopLevel :
            /\ IsPrefix(top, p) /\ p # top
            /\ \A n \in (Len(top) + 1)..(Len(p) - 1) :
                   ~should_exclude(SubSeq(p, 1, n))}

\* the calls of should_exclude on p, and the MKD and STOR issued for p
QueriesOn(p) == {j \in Calls("should_exclude") : sess.log[j].path = p}
ActsOn(p) ==
    {i \in Calls("mkd") \cup Calls("stor") :
        Norm(<<>>, sess.log[i].arg.segs) = RemotePath(p)}

\* the MKD and STOR of the upload pass for a node below a top-level item
BelowTop ==
    {i \in Calls("mkd") \cup Calls("stor") :
        /\ Len(Norm(<<>>, sess.log[i].arg.segs)) > Len(remote_app_path.segs)
        /\ LocalOf(sess.log[i].arg) \notin TopLevel}

C17_ChildrenQueriedOnce ==
    /\ \A j, k \in Calls("should_exclude") :
          sess.log[j].path = sess.log[k].path => j = k
    /\ \A j \in Calls("should_exclude") : sess.log[j].path \in Visited
    /\ \A i \in BelowTop :
          \E j \in Calls("should_exclude") :
              j < i /\ sess.log[j].path = LocalOf(sess.log[i].arg)
    /\ pc \in {"Uploaded", "Reported"} =>
          {sess.log[j].path : j \in Calls("should_exclude")} = Visited

\* a run that stored a top-level file, and a file of a directory after
\* asking about it
C17_Witness ==
    /\ pc = "Uploaded"
    /\ ActsOn(local_app_dir \o <<"index.html">>) # {}
    /\ ActsOn(local_app_dir \o <<"src">>) # {}
    /\ ActsOn(local_app_dir \o <<"src", "app.js">>) # {}
    /\ QueriesOn(local_app_dir \o <<"src", "original">>) # {}

(* C17 as stated: should_exclude is asked about every node, the top-level   *)
(* items included, before any MKD or STOR is issued for the node.           *)
C17_EveryNodeQueried ==
    \A p \in (LocalFiles \cup LocalDirs) \ {local_app_dir} :
        /\ Cardinality(QueriesOn(p)) <= 1
        /\ \A i \in ActsOn(p) : \E j \in QueriesOn(p) : j < i

-----------------------------------------------------------------------------
(* C18.  When clean_remote_directory returns after it has entered the       *)
(* target, the working directory is '/'.  The code fails it: an error_perm  *)
(* inside the pass skips the cwd('/') at the end of the body.  (A refused   *)
(* cwd('/') is not held against the property.)                              *)

\* the pass entered the target
Entered ==
    /\ Len(sess.log) >= 1
    /\ sess.log[1].op = "cwd"
    /\ sess.log[1].res = "ok"

C18_CleanEndsAtRoot ==
    (/\ pc = "CleanReturned"
     /\ Entered
     /\ \A i \in Calls("cwd") : sess.log[i].path = <<>> => sess.log[i].res = "ok")
        => sess.cwd = <<>>

-----------------------------------------------------------------------------
(* C19.  Once a clean pass has entered the target, every call it makes is   *)
(* made with the working directory in the target or below it, every DELE    *)
(* and every RMD names a path strictly below the target, and when the pass  *)
(* is over, returned or raised, everything the store held outside the       *)
(* target is still there.                                                   *)

\* q is the target or lies below it
Inside(q) == IsPrefix(Target, q)

C19_CleanStaysInTarget ==
    pc \in {"CleanReturned", "CleanRaised"} =>
        /\ \A i \in DOMAIN sess.log : i >= 2 => Inside(sess.log[i].cwd)
        /\ \A i \in Calls("dele") \cup Calls("rmd") :
               Inside(sess.log[i].path) /\ sess.log[i].path # Target
        /\ \A q \in before.dirs \cup before.files :
               ~Inside(q) => q \in sess.dirs \cup sess.files
        /\ Target \in before.dirs => Target \in sess.dirs

\* a pass in which a directory could not be entered, an entry after it was
\* deleted, and something outside the target was there to lose
C19_Witness ==
    /\ pc = "CleanReturned"
    /\ \E i \in Calls("cwd") :
          /\ i >= 2
          /\ sess.log[i].res # "ok"
          /\ \E j \in Calls("dele") : j > i /\ sess.log[j].res = "ok"
    /\ \E q \in before.dirs : ~Inside(q) /\ q # <<>> /\ ~IsPrefix(q, Target)

-----------------------------------------------------------------------------
(* C20.  Every call of a run whose argument is built from remote_app_path   *)
(* (a prefix of it in the ensure, the path itself in the clean pass, a path *)
(* below it in the upload pass) is made in the same working directory, so   *)
(* that all of them name the same deployment root.  The code fails it,      *)
(* because of C2 and C18: the ensure and the clean pass move the working    *)
(* directory.                                                               *)

\* the calls whose argument is relative and built from remote_app_path
RootCalls ==
    {i \in Calls("mkd") \cup Calls("cwd") \cup Calls("stor") :
        /\ ~sess.log[i].arg.abs
        /\ \/ IsPrefix(remote_app_path.segs, sess.log[i].arg.segs)
           \/ /\ sess.log[i].arg.segs # <<>>
              /\ IsPrefix(sess.log[i].arg.segs, remote_app_path.segs)}

C20_OneBaseDirectory ==
    \A i, j \in RootCalls : sess.log[i].cwd = sess.log[j].cwd

=============================================================================
